---- MODULE Spec2Model ----
(***************************************************************************)
(* Model of sphinxext/quote.py: the quote / quotes directives and the      *)
(* three event callbacks process_quotes (doctree-read),                    *)
(* process_quote_nodes (doctree-resolved) and purge_quotes (env-purge-doc).*)
(*                                                                         *)
(* Text is a sequence of one-character strings, so that split, strip and   *)
(* the % formatting of Quote.run are computed and not assumed.  A Python   *)
(* dict is a function whose DOMAIN is the set of keys present.  A docutils *)
(* node is a record with an id standing for the object's identity.         *)
(* The file is Python 2 code (builtin reduce, line 209).                   *)
(***************************************************************************)
EXTENDS Integers, Sequences, FiniteSets, TLC

\* ------------------------------------------------------------------ bounds
MaxChildren == 2   \* children of a doctree handed to process_quotes
MaxQuotes == 2     \* quote directives of one document (filter corpora)
MaxSelectors == 2  \* children of a doctree handed to process_quote_nodes
MaxRandom == 2     \* largest :random: count written in a quotes directive
MaxRegistry == 3   \* entries env.quote_all_quotes may hold

Docs == {"d1", "d2"}

\* ------------------------------------------------------------------ Python
\* Python's None
None == [kind |-> "None"]

\* dict.get(key, default)
Get(d, key, default) == IF key \in DOMAIN d THEN d[key] ELSE default

\* d[key] = value
Put(d, key, value) ==
    [k \in DOMAIN d \cup {key} |-> IF k = key THEN value ELSE d[k]]

\* str.split(','): the pieces between commas; ''.split(',') is ['']
RECURSIVE SplitFrom(_, _, _)
SplitFrom(s, i, cur) ==
    IF i > Len(s) THEN <<cur>>
    ELSE IF s[i] = "," THEN <<cur>> \o SplitFrom(s, i + 1, <<>>)
    ELSE SplitFrom(s, i + 1, Append(cur, s[i]))

Split(s) == SplitFrom(s, 1, <<>>)

\* str.strip(): leading and trailing whitespace removed
RECURSIVE LStrip(_)
LStrip(s) == IF s # <<>> /\ Head(s) = " " THEN LStrip(Tail(s)) ELSE s

RECURSIVE RStrip(_)
RStrip(s) ==
    IF s # <<>> /\ s[Len(s)] = " " THEN RStrip(SubSeq(s, 1, Len(s) - 1)) ELSE s

Strip(s) == LStrip(RStrip(s))

\* seq[k] with Python's negative indices; IndexError when out of range
PyGetItem(seq, k) ==
    LET n == Len(seq)
        j == IF k < 0 THEN k + n ELSE k
    IN  IF 0 <= j /\ j < n THEN [raised |-> "no", value |-> seq[j + 1]]
        ELSE [raised |-> "IndexError", value |-> None]

\* list.index(x), 0-based: the first position holding x
ListIndex(seq, x) == (CHOOSE i \in 1..Len(seq) :
                         seq[i] = x /\ \A j \in 1..(i - 1) : seq[j] # x) - 1

\* --------------------------------------------------------------- _prep_tags
_prep_tags(options) ==
    LET pieces == Split(Get(options, "tags", <<>>))
    IN  Put(options, "tags", {Strip(pieces[i]) : i \in 1..Len(pieces)})

\* ---------------------------------------------------------------- Quote.run
\* mutant: the date wrapped in parentheses
FormatDate_parens(options) == <<"(">> \o options["date"] \o <<")">>

\* '[%(date)s]' % options
FormatDate(options) == <<"[">> \o options["date"] \o <<"]">>

\* 'Source: %(source)s' % options
FormatSource(options) ==
    <<"S", "o", "u", "r", "c", "e", ":", " ">> \o options["source"]

\* lines 107-110: the two options formatted in place
PreFormat(options) ==
    LET o1 == IF "date" \in DOMAIN options
              THEN Put(options, "date", FormatDate(options)) ELSE options
    IN  IF "source" \in DOMAIN o1
        THEN Put(o1, "source", FormatSource(o1)) ELSE o1

AttributionOrder == <<"author", "date", "affiliation", "source">>

\* lines 103-114: nodes.attribution('--', '--') extended by one inline per
\* option present, in the order of the list of line 111
RECURSIVE Inlines(_, _)
Inlines(options, els) ==
    IF els = <<>> THEN <<>>
    ELSE (IF Head(els) \in DOMAIN options
          THEN <<[classes |-> Head(els),
                  text |-> <<" ", " ">> \o options[Head(els)]]>>
          ELSE <<>>) \o Inlines(options, Tail(els))

Attribution(options) ==
    <<[classes |-> "", text |-> <<"-", "-">>]>>
      \o Inlines(options, AttributionOrder)

\* lines 86-91: the target node put before the quote
TargetNode(id) == [kind |-> "target", id |-> id]

\* lines 93-119: the quote_node, its attribution, line and options
QuoteNode(options, lineno, id) ==
    LET formatted == PreFormat(options)
    IN  [kind |-> "quote_node", id |-> id, line |-> lineno,
         attribution |-> Attribution(formatted),
         options |-> _prep_tags(formatted)]

\* ---------------------------------------------------------------- Quotes.run
QuotesRun(options, id) ==
    [kind |-> "quotes", id |-> id,
     options |-> IF "tags" \in DOMAIN options THEN _prep_tags(options)
                 ELSE options]

\* any other node of a doctree
Paragraph(id) == [kind |-> "paragraph", id |-> id]

\* ------------------------------------------------------------------ inputs
\* What the host hands to the callbacks.  A layout is the child list of the
\* parent of a doctree as doctree-read sees it (after the host's
\* transforms): target nodes, quote nodes and other nodes in any order.
EmptyDict == << >>

SeqsUpTo(S, n) == UNION {[1..k -> S] : k \in 0..n}

\* the dicts of ds, and each of them with key k set to a value of vs
WithOption(ds, k, vs) == ds \cup {Put(d, k, v) : d \in ds, v \in vs}

TargetItem == [kind |-> "target"]
ParagraphItem == [kind |-> "paragraph"]
QuoteItem(options) == [kind |-> "quote", options |-> options]

\* Quote.run returns [targetnode] + [node] (line 120)
RECURSIVE Written(_)
Written(optionsList) ==
    IF optionsList = <<>> THEN <<>>
    ELSE <<TargetItem, QuoteItem(Head(optionsList))>>
           \o Written(Tail(optionsList))

\* option values written in the documents
TagsText == {<<"a", ",", "b">>, <<"b">>, <<"a", ",", " ", "b", ",", "c">>}
SelectorTagsText ==
    {<<"a", ",", "b">>, <<"b">>, <<>>, <<"c", ",", " ", "a", " ">>}
GroupText == {<<>>, <<"g">>}
AuthorText == {<<"J", "o", "e">>}
DateText == {<<"9", "0">>}
AffiliationText == {<<"U">>}
SourceText == {<<"w", "w", "w">>}

\* The corpora: "layout" (doctrees of every shape), "tags", "group",
\* "sample", "abort" (what the quotes directive is asked), "attribution"
\* (what the quote directive is given)
QuoteOptions(c) ==
    CASE c = "tags" -> WithOption({EmptyDict}, "tags", TagsText)
      [] c = "group" ->
           WithOption(WithOption({EmptyDict}, "tags", {<<"b">>}),
                      "group", GroupText)
      [] c = "sample" -> WithOption({EmptyDict}, "group", {<<"g">>})
      [] c = "attribution" ->
           WithOption(WithOption(WithOption(WithOption({EmptyDict},
             "author", AuthorText), "date", DateText),
             "affiliation", AffiliationText), "source", SourceText)
      [] OTHER -> {EmptyDict}

Layouts(c) ==
    CASE c = "layout" ->
           SeqsUpTo({TargetItem, ParagraphItem, QuoteItem(EmptyDict)},
                    MaxChildren)
      [] c = "attribution" -> {Written(<<o>>) : o \in QuoteOptions(c)}
      [] OTHER -> {Written(l) : l \in SeqsUpTo(QuoteOptions(c), MaxQuotes)}

\* the options of the quotes directives of a document being resolved
SelectorOptions(c) ==
    CASE c = "tags" -> WithOption({EmptyDict}, "tags", SelectorTagsText)
      [] c = "group" ->
           WithOption(WithOption({EmptyDict}, "tags", {<<"b">>}),
                      "group", GroupText)
      [] c = "sample" ->
           WithOption(WithOption({EmptyDict}, "group", {<<"g">>}),
                      "random", 1..MaxRandom)
      [] c = "abort" -> WithOption({EmptyDict}, "random", 1..MaxRandom)
      [] OTHER -> {EmptyDict}

Selections(c) ==
    SeqsUpTo({ParagraphItem} \cup
             {[kind |-> "quotes", options |-> o] : o \in SelectorOptions(c)},
             IF c = "abort" THEN MaxSelectors ELSE 1)

\* The doctree of document d with layout l: one parent whose child i is the
\* node <<d, i>>, on line i.  A document parsed again after its purge gets
\* nodes of the same ids: none of the old ones is left in the registry.
DocTree(d, l) ==
    [i \in 1..Len(l) |->
       CASE l[i].kind = "target" -> TargetNode(<<d, i>>)
         [] l[i].kind = "quote" -> QuoteNode(l[i].options, i, <<d, i>>)
         [] l[i].kind = "quotes" -> QuotesRun(l[i].options, <<d, i>>)
         [] OTHER -> Paragraph(<<d, i>>)]

\* doctree.traverse(cls): the nodes of one class, in document order
RECURSIVE Traverse(_, _)
Traverse(doctree, kind) ==
    IF doctree = <<>> THEN <<>>
    ELSE (IF Head(doctree).kind = kind THEN <<Head(doctree)>> ELSE <<>>)
           \o Traverse(Tail(doctree), kind)

\* ------------------------------------------------------------------- state
VARIABLES
    corpus,            \* which documents the project is made of
    hasattr,           \* hasattr(env, 'quote_all_quotes')
    quote_all_quotes,  \* env.quote_all_quotes
    tree,              \* host: per document, the parse handed to doctree-read
    protocolKept,      \* host: no document was read twice without a purge
    last               \* the last callback, its arguments and its outcome

vars == <<corpus, hasattr, quote_all_quotes, tree, protocolKept, last>>

Init ==
    /\ corpus = "layout"
    /\ hasattr = FALSE
    /\ quote_all_quotes = <<>>
    /\ tree = [d \in Docs |-> [read |-> FALSE, layout |-> <<>>]]
    /\ protocolKept = TRUE
    /\ last = [op |-> "none"]

TreeOf(t, d) == DocTree(d, t[d].layout)

\* ----------------------------------------------------------- process_quotes
\* lines 134-139: the node before the quote in its parent, when a target
TargetOf(parent, node) ==
    LET got == PyGetItem(parent, ListIndex(parent, node) - 1)
    IN  IF got.raised = "IndexError" THEN None
        ELSE IF got.value.kind # "target" THEN None
        ELSE got.value

\* lines 140-145
QuoteInfo(docname, parent, node) ==
    [docname |-> docname, lineno |-> node.line, quote |-> node,
     target |-> TargetOf(parent, node)]

\* lines 133-145: one record per quote node, in traversal order
RECURSIVE Collect(_, _, _)
Collect(docname, parent, nodes) ==
    IF nodes = <<>> THEN <<>>
    ELSE <<QuoteInfo(docname, parent, Head(nodes))>>
           \o Collect(docname, parent, Tail(nodes))

\* mutant: the new records put before the old ones
Appended_front(registry, docname, doctree) ==
    Collect(docname, doctree, Traverse(doctree, "quote_node")) \o registry

Appended(registry, docname, doctree) ==
    registry \o Collect(docname, doctree, Traverse(doctree, "quote_node"))

\* doctree-read of document d.  fresh: the host parsed d, which it does
\* only for a document it holds no parse of (it purges before reading
\* again); else the callback is handed once more the doctree it was handed.
process_quotes(d, fresh, l) ==
    LET t == IF fresh THEN [read |-> TRUE, layout |-> l] ELSE tree[d]
        doctree == DocTree(d, t.layout)
    IN  /\ IF fresh THEN ~tree[d].read ELSE tree[d].read /\ l = <<>>
        /\ Len(quote_all_quotes) + Len(Traverse(doctree, "quote_node"))
             <= MaxRegistry
        /\ tree' = [tree EXCEPT ![d] = t]
        /\ hasattr' = TRUE
        /\ quote_all_quotes' = Appended(quote_all_quotes, d, doctree)
        /\ protocolKept' = (protocolKept /\ fresh)
        /\ last' = [op |-> "process_quotes", docname |-> d]
        /\ UNCHANGED corpus

\* ------------------------------------------------------------- purge_quotes
\* mutant: the comparison of line 250 inverted
Kept_inverted(registry, docname) ==
    SelectSeq(registry, LAMBDA quote : quote.docname = docname)

\* mutant: nothing purged
Kept_all(registry, docname) == registry

\* lines 249-250
RECURSIVE Kept(_, _)
Kept(registry, docname) ==
    IF registry = <<>> THEN <<>>
    ELSE (IF Head(registry).docname # docname THEN <<Head(registry)>>
          ELSE <<>>) \o Kept(Tail(registry), docname)

purge_quotes(d) ==
    /\ quote_all_quotes' = IF ~hasattr THEN quote_all_quotes
                           ELSE Kept(quote_all_quotes, d)
    /\ tree' = [tree EXCEPT ![d] = [read |-> FALSE, layout |-> <<>>]]
    /\ last' = [op |-> "purge_quotes", docname |-> d,
                before |-> Len(quote_all_quotes)]
    /\ UNCHANGED <<corpus, hasattr, protocolKept>>

\* ------------------------------------------------------ process_quote_nodes
\* set.issuperset(s, t)
IsSuperset(s, t) == \A x \in t : x \in s

\* mutant: issubset for issuperset
TagsFilter_subset(quote, ltags) == IsSuperset(ltags, quote.options["tags"])

\* lines 198-199: the tags filter
TagsFilter(quote, ltags) == IsSuperset(quote.options["tags"], ltags)

\* mutant: no default for a quote without a group
GroupFilter_strict(quote, loptions) ==
    "group" \in DOMAIN quote.options
      /\ quote.options["group"] = loptions["group"]

\* lines 204-205: the group filter
GroupFilter(quote, loptions) ==
    Get(quote.options, "group", <<>>) = loptions["group"]

\* lines 191-205: the filters the options of the selector ask for
Filters(loptions) ==
    (IF "tags" \in DOMAIN loptions THEN <<"tags">> ELSE <<>>)
      \o (IF "group" \in DOMAIN loptions THEN <<"group">> ELSE <<>>)

ApplyFilter(f, quote, loptions) ==
    IF f = "tags" THEN TagsFilter(quote, loptions["tags"])
    ELSE GroupFilter(quote, loptions)

\* mutant: operator.__or__ for operator.__and__
RECURSIVE ReduceAnd_or(_, _)
ReduceAnd_or(values, initial) ==
    IF values = <<>> THEN initial
    ELSE ReduceAnd_or(Tail(values), initial \/ Head(values))

\* reduce(operator.__and__, values, initial)
RECURSIVE ReduceAnd(_, _)
ReduceAnd(values, initial) ==
    IF values = <<>> THEN initial
    ELSE ReduceAnd(Tail(values), initial /\ Head(values))

\* lines 209-211
Passes(quote, loptions) ==
    LET filters == Filters(loptions)
    IN  ReduceAnd([i \in 1..Len(filters) |->
                     ApplyFilter(filters[i], quote, loptions)], TRUE)

\* lines 207-215: the quotes of the entries that pass, in registry order
RECURSIVE Content(_, _)
Content(registry, loptions) ==
    IF registry = <<>> THEN <<>>
    ELSE (IF Passes(Head(registry).quote, loptions)
          THEN <<Head(registry).quote>> ELSE <<>>)
           \o Content(Tail(registry), loptions)

\* the sequences of k different positions of 1..n
Picks(n, k) ==
    {p \in [1..k -> 1..n] : \A i, j \in 1..k : i # j => p[i] # p[j]}

\* random.sample(population, k): the lists it may return; none when it
\* raises ValueError (k larger than the population)
Sample(population, k) ==
    {[j \in 1..k |-> population[p[j]]] : p \in Picks(Len(population), k)}

\* lines 221-223: loptions.get('random', None) is true for every count the
\* directive accepts (directives.positive_int, line 158)
WantsSample(loptions) ==
    "random" \in DOMAIN loptions /\ loptions["random"] # 0

\* mutant: the sample drawn from the whole registry
Replacements_unfiltered(registry, loptions) ==
    IF WantsSample(loptions)
    THEN Sample(Content(registry, EmptyDict), loptions["random"])
    ELSE {Content(registry, loptions)}

\* mutant: the count cut down to the number of quotes there are
Replacements_clamped(registry, loptions) ==
    LET content == Content(registry, loptions)
    IN  IF WantsSample(loptions)
        THEN Sample(content, IF loptions["random"] > Len(content)
                             THEN Len(content) ELSE loptions["random"])
        ELSE {content}

\* lines 190-223 for one selector: the contents that may replace it
Replacements(registry, loptions) ==
    IF WantsSample(loptions)
    THEN Sample(Content(registry, loptions), loptions["random"])
    ELSE {Content(registry, loptions)}

\* lines 188-241 over the children in document order.  An outcome gives for
\* each child the nodes standing in its place (segments) and what was
\* raised; the children after a raise stay as they are.
RECURSIVE Outcomes(_, _)
Outcomes(children, registry) ==
    IF children = <<>> THEN {[segments |-> <<>>, raised |-> "no"]}
    ELSE LET node == Head(children)
             rest == Outcomes(Tail(children), registry)
             untouched == [i \in 1..Len(children) |-> <<children[i]>>]
         IN  IF node.kind # "quotes"
             THEN {[segments |-> <<<<node>>>> \o r.segments,
                    raised |-> r.raised] : r \in rest}
             ELSE IF Replacements(registry, node.options) = {}
             THEN {[segments |-> untouched, raised |-> "ValueError"]}
             ELSE {[segments |-> <<c>> \o r.segments, raised |-> r.raised] :
                     c \in Replacements(registry, node.options), r \in rest}

\* doctree-resolved of document d, whose quotes directives are sel
process_quote_nodes(d, sel) ==
    LET doctree == DocTree(d, sel)
        registry == IF hasattr THEN quote_all_quotes ELSE <<>>
    IN  \E out \in Outcomes(doctree, registry) :
          /\ hasattr' = TRUE
          /\ quote_all_quotes' = registry
          /\ last' = [op |-> "process_quote_nodes", docname |-> d,
                      doctree |-> doctree, segments |-> out.segments,
                      raised |-> out.raised]
          /\ UNCHANGED <<corpus, tree, protocolKept>>

\* ------------------------------------------------------------ specifications
Next ==
    \/ \E d \in Docs, l \in Layouts(corpus) : process_quotes(d, TRUE, l)
    \/ \E d \in Docs : process_quotes(d, FALSE, <<>>)
    \/ \E d \in Docs : purge_quotes(d)
    \/ \E d \in Docs, sel \in Selections(corpus) : process_quote_nodes(d, sel)

Spec == Init /\ [][Next]_vars

\* A build that reads each document once and resolves: the filters
InitResolve ==
    /\ corpus \in {"tags", "group", "sample", "abort"}
    /\ hasattr = FALSE
    /\ quote_all_quotes = <<>>
    /\ tree = [d \in Docs |-> [read |-> FALSE, layout |-> <<>>]]
    /\ protocolKept = TRUE
    /\ last = [op |-> "none"]

NextResolve ==
    \/ \E d \in Docs, l \in Layouts(corpus) : process_quotes(d, TRUE, l)
    \/ \E d \in Docs, sel \in Selections(corpus) : process_quote_nodes(d, sel)

SpecResolve == InitResolve /\ [][NextResolve]_vars

\* The quote directive alone: every choice of its attribution options
InitQuote ==
    /\ corpus = "attribution"
    /\ hasattr = FALSE
    /\ quote_all_quotes = <<>>
    /\ tree = [d \in Docs |-> [read |-> FALSE, layout |-> <<>>]]
    /\ protocolKept = TRUE
    /\ last = [op |-> "none"]

NextQuote ==
    \E d \in Docs, l \in Layouts(corpus) : process_quotes(d, TRUE, l)

SpecQuote == InitQuote /\ [][NextQuote]_vars

\* ------------------------------------------------------------------ claims
\* Stated from the documents and the registry alone, without the operators
\* the callbacks are modelled with.

\* the k-th smallest element of a set of numbers
Nth(S, k) == CHOOSE i \in S : Cardinality({j \in S : j <= i}) = k

\* the elements of seq at the positions of S, in order
Restrict(seq, S) ==
    [k \in 1..Cardinality(S) |-> seq[Nth(S, k)]]

EntriesOf(registry, d) ==
    Restrict(registry, {i \in 1..Len(registry) : registry[i].docname = d})

QuotePositions(doctree) ==
    {i \in 1..Len(doctree) : doctree[i].kind = "quote_node"}

Resolved == last.op = "process_quote_nodes"

Selectors == IF Resolved
             THEN {i \in 1..Len(last.doctree) : last.doctree[i].kind = "quotes"}
             ELSE {}

Has(i, option) == option \in DOMAIN last.doctree[i].options

\* what the spec says of the filters: tags by inclusion, group by equality
\* with an unset group read as the empty string
TagsOk(i, e) ==
    Has(i, "tags") => last.doctree[i].options.tags \subseteq e.quote.options.tags

GroupOf(e) ==
    IF "group" \in DOMAIN e.quote.options THEN e.quote.options.group ELSE <<>>

GroupOk(i, e) == Has(i, "group") => GroupOf(e) = last.doctree[i].options.group

Filtered(i) ==
    LET r == quote_all_quotes
        S == {j \in 1..Len(r) : TagsOk(i, r[j]) /\ GroupOk(i, r[j])}
    IN  [k \in 1..Cardinality(S) |-> r[Nth(S, k)].quote]

Range(seq) == {seq[k] : k \in 1..Len(seq)}

\* the selector asks for more quotes than pass its filters
Short(i) == Has(i, "random") /\ last.doctree[i].options.random > Len(Filtered(i))

\* no selector before i has stopped the callback
Reached(i) == \A j \in Selectors : j < i => ~Short(j)

\* C1: a selector with a tags option T lets an entry with tag set C through
\* exactly when T is a subset of C: alone, the tags option decides the
\* content; with other options, nothing outside T \subseteq C gets through.
C1_TagsFilterIsSubset ==
    \A i \in Selectors : Has(i, "tags") /\ Reached(i) /\ ~Short(i) =>
      \A j \in 1..Len(quote_all_quotes) :
        LET e == quote_all_quotes[j]
            T == last.doctree[i].options.tags
            C == e.quote.options.tags
            in == e.quote \in Range(last.segments[i])
        IN  /\ in => T \subseteq C
            /\ ~Has(i, "group") /\ ~Has(i, "random") => (in <=> T \subseteq C)

C1_Witness ==
    \E i \in Selectors :
      /\ Has(i, "tags") /\ ~Has(i, "group")
      /\ \E j, k \in 1..Len(quote_all_quotes) :
           /\ quote_all_quotes[j].quote \in Range(last.segments[i])
           /\ quote_all_quotes[k].quote \notin Range(last.segments[i])
           /\ quote_all_quotes[k].quote.options.tags # {<<>>}

\* C2 as stated: with a group option G an entry passes exactly when its
\* group is G, and for the empty G only the entries with no group pass.
C2_EmptyGroupOnlyUnset ==
    \A i \in Selectors :
      Has(i, "group") /\ ~Has(i, "tags") /\ ~Has(i, "random") =>
        \A j \in 1..Len(quote_all_quotes) :
          LET e == quote_all_quotes[j]
              G == last.doctree[i].options.group
          IN  e.quote \in Range(last.segments[i]) <=>
                IF G = <<>> THEN "group" \notin DOMAIN e.quote.options
                ELSE "group" \in DOMAIN e.quote.options
                       /\ e.quote.options.group = G

\* C2 amended: with a group option G an entry passes exactly when its group
\* is G; for the empty G the entries that pass are those with no group and
\* those whose group is the empty string.
C2_GroupFilterIsEquality ==
    \A i \in Selectors :
      Has(i, "group") /\ ~Has(i, "tags") /\ ~Has(i, "random") =>
        \A j \in 1..Len(quote_all_quotes) :
          LET e == quote_all_quotes[j]
              G == last.doctree[i].options.group
          IN  e.quote \in Range(last.segments[i]) <=>
                IF G = <<>>
                THEN "group" \notin DOMAIN e.quote.options
                       \/ e.quote.options.group = <<>>
                ELSE "group" \in DOMAIN e.quote.options
                       /\ e.quote.options.group = G

C2_Witness ==
    \E i \in Selectors :
      /\ Has(i, "group") /\ ~Has(i, "tags") /\ ~Has(i, "random")
      /\ last.doctree[i].options.group = <<>>
      /\ \E j, k \in 1..Len(quote_all_quotes) :
           /\ "group" \notin DOMAIN quote_all_quotes[j].quote.options
           /\ quote_all_quotes[j].quote \in Range(last.segments[i])
           /\ "group" \in DOMAIN quote_all_quotes[k].quote.options
           /\ quote_all_quotes[k].quote \notin Range(last.segments[i])

\* C4: a selector without a random option is replaced by exactly the quotes
\* of the entries that pass all its filters, in registry order; without
\* options, by all of them.
C4_ReplacedByFilteredInOrder ==
    \A i \in Selectors : ~Has(i, "random") /\ Reached(i) =>
      last.segments[i] = Filtered(i)

\* the example of the spec: tags {a,b}, {b}, {a,b,c} and a selector asking
\* for {a,b} give the first and the third entry
C4_Witness ==
    /\ Len(quote_all_quotes) = 3
    /\ quote_all_quotes[1].quote.options.tags = {<<"a">>, <<"b">>}
    /\ quote_all_quotes[2].quote.options.tags = {<<"b">>}
    /\ quote_all_quotes[3].quote.options.tags = {<<"a">>, <<"b">>, <<"c">>}
    /\ \E i \in Selectors :
         /\ last.doctree[i].options = [tags |-> {<<"a">>, <<"b">>}]
         /\ last.segments[i]
              = <<quote_all_quotes[1].quote, quote_all_quotes[3].quote>>

\* C5: a selector asking for k random quotes, k at most the number that pass
\* its filters, is replaced by exactly k quotes, each drawn from a different
\* filtered entry, so none twice; for k equal to that number, by all of them.
C5_SampleWithoutReplacement ==
    \A i \in Selectors : Has(i, "random") /\ Reached(i) /\ ~Short(i) =>
      LET k == last.doctree[i].options.random
          F == Filtered(i)
          seg == last.segments[i]
      IN  /\ Len(seg) = k
          /\ \E p \in [1..k -> 1..Len(F)] :
               /\ \A a, b \in 1..k : a # b => p[a] # p[b]
               /\ \A a \in 1..k : seg[a] = F[p[a]]
          /\ \A a, b \in 1..k : a # b => seg[a] # seg[b]
          /\ k = Len(F) => Range(seg) = Range(F)

C5_Witness ==
    \E i \in Selectors :
      /\ Has(i, "random") /\ Has(i, "group")
      /\ last.doctree[i].options.random = 2
      /\ Len(quote_all_quotes) = 3
      /\ Len(Filtered(i)) = 2
      /\ last.segments[i] = <<Filtered(i)[2], Filtered(i)[1]>>

\* C6: a selector asking for more random quotes than pass its filters makes
\* process_quote_nodes raise: that selector stays in the doctree and the
\* registry is as it was.
C6_SampleTooLargeAborts ==
    [][Resolved' =>
         \A i \in Selectors' : (Reached(i) /\ Short(i))' =>
           /\ last'.raised = "ValueError"
           /\ last'.segments[i] = <<last'.doctree[i]>>
           /\ quote_all_quotes' = quote_all_quotes]_vars

C6_Witness ==
    /\ Resolved
    /\ last.raised = "ValueError"
    /\ quote_all_quotes # <<>>
    /\ \E i, j \in Selectors :
         j < i /\ Short(i) /\ last.segments[j] # <<last.doctree[j]>>

\* the text of the attribution line: that of its children, joined
RECURSIVE AsText(_)
AsText(children) ==
    IF children = <<>> THEN <<>>
    ELSE Head(children).text \o AsText(Tail(children))

Contains(s, sub) ==
    \E i \in 0..(Len(s) - Len(sub)) : SubSeq(s, i + 1, i + Len(sub)) = sub

\* the options written in the quote directive an entry comes from
WrittenOptions(e) == tree[e.docname].layout[e.lineno].options

SourceWrapper == <<"S", "o", "u", "r", "c", "e", ":", " ">>

ClaimedOrder == <<"author", "date", "affiliation", "source">>

\* C7: the attribution line of a quote holds "[<date>]" when a date was
\* given and "Source: <source>" when a source was given, holds neither
\* wrapper otherwise, and its pieces come in the order author, date,
\* affiliation, source.
C7_AttributionLine ==
    \A j \in 1..Len(quote_all_quotes) :
      LET e == quote_all_quotes[j]
          o == WrittenOptions(e)
          line == AsText(e.quote.attribution)
          pieces == Tail(e.quote.attribution)
          given == {k \in 1..Len(ClaimedOrder) : ClaimedOrder[k] \in DOMAIN o}
      IN  /\ IF "date" \in DOMAIN o
             THEN Contains(line, <<"[">> \o o.date \o <<"]">>)
             ELSE ~Contains(line, <<"[">>) /\ ~Contains(line, <<"]">>)
          /\ IF "source" \in DOMAIN o
             THEN Contains(line, SourceWrapper \o o.source)
             ELSE ~Contains(line, SourceWrapper)
          /\ [k \in 1..Len(pieces) |-> pieces[k].classes]
               = Restrict(ClaimedOrder, given)

C7_Witness ==
    \E j \in 1..Len(quote_all_quotes), k \in 1..Len(quote_all_quotes) :
      /\ DOMAIN WrittenOptions(quote_all_quotes[j])
           = {"author", "date", "affiliation", "source"}
      /\ DOMAIN WrittenOptions(quote_all_quotes[k]) = {"affiliation"}

\* C3: purge_quotes(docname) removes the entries of docname and no other,
\* keeping the others in their order; with no registry it does nothing.
C3_PurgeRemovesExactly ==
    [][last'.op = "purge_quotes" =>
         LET d == last'.docname
             keep == {i \in 1..Len(quote_all_quotes) :
                        quote_all_quotes[i].docname # d}
         IN  /\ hasattr' = hasattr
             /\ IF ~hasattr THEN quote_all_quotes' = quote_all_quotes
                ELSE /\ Len(quote_all_quotes') = Cardinality(keep)
                     /\ \A k \in 1..Cardinality(keep) :
                          quote_all_quotes'[k] = quote_all_quotes[Nth(keep, k)]
                     /\ \A k \in 1..Len(quote_all_quotes') :
                          quote_all_quotes'[k].docname # d]_vars

C3_Witness ==
    /\ last.op = "purge_quotes"
    /\ last.before = 3
    /\ Len(quote_all_quotes) = 2
    /\ quote_all_quotes[1].lineno < quote_all_quotes[2].lineno

\* C8: process_quotes appends: the registry it found is a prefix of the one
\* it leaves, followed by one record per quote node of the doctree, in
\* document order, with the document's name, the node's line and the node.
C8_PureAppend ==
    [][last'.op = "process_quotes" =>
         LET d == last'.docname
             doctree == TreeOf(tree', d)
             at == QuotePositions(doctree)
             n == Len(quote_all_quotes)
         IN  /\ Len(quote_all_quotes') = n + Cardinality(at)
             /\ \A k \in 1..n : quote_all_quotes'[k] = quote_all_quotes[k]
             /\ \A k \in 1..Cardinality(at) :
                  LET e == quote_all_quotes'[n + k]
                      node == doctree[Nth(at, k)]
                  IN  /\ e.docname = d
                      /\ e.lineno = node.line
                      /\ e.quote = node]_vars

C8_Witness ==
    /\ last.op = "process_quotes"
    /\ Len(quote_all_quotes) = 3
    /\ quote_all_quotes[1].docname # last.docname
    /\ quote_all_quotes[2].docname = last.docname
    /\ quote_all_quotes[3].docname = last.docname

\* C9: the anchor recorded for a quote node is the node just before it in
\* its parent when that node is a target, and no anchor otherwise, also
\* when the quote node is the first child.
C9_AnchorIsPrecedingTarget ==
    [][last'.op = "process_quotes" =>
         LET d == last'.docname
             doctree == TreeOf(tree', d)
             at == QuotePositions(doctree)
             n == Len(quote_all_quotes)
         IN  \A k \in 1..Cardinality(at) :
               LET i == Nth(at, k)
               IN  quote_all_quotes'[n + k].target =
                     IF i > 1 /\ doctree[i - 1].kind = "target"
                     THEN doctree[i - 1] ELSE None]_vars

\* a quote node held by the registry more than once
Twice(registry, node) ==
    \E a, b \in 1..Len(registry) :
      a # b /\ registry[a].quote = node /\ registry[b].quote = node

\* C10: as long as no document is handed to process_quotes twice without a
\* purge_quotes of it in between, the registry holds no quote node twice and
\* its entries for each document are the quote nodes of the parse the host
\* holds of it (none for a purged document); handing a read document once
\* more adds its quote nodes a second time.
C10_OncePerDocument ==
    [][/\ protocolKept' =>
            /\ \A j \in 1..Len(quote_all_quotes') :
                 ~Twice(quote_all_quotes', quote_all_quotes'[j].quote)
            /\ \A d \in Docs :
                 LET got == EntriesOf(quote_all_quotes', d)
                     doctree == TreeOf(tree', d)
                 IN  [k \in 1..Len(got) |-> got[k].quote]
                       = Restrict(doctree, QuotePositions(doctree))
       /\ last'.op = "process_quotes" /\ tree[last'.docname].read =>
            \A i \in QuotePositions(TreeOf(tree', last'.docname)) :
              Twice(quote_all_quotes', TreeOf(tree', last'.docname)[i])]_vars

C10_Witness ==
    /\ protocolKept
    /\ last.op = "process_quotes"
    /\ last.docname = "d1"
    /\ Len(quote_all_quotes) = 3
    /\ quote_all_quotes[1].docname = "d2"
    /\ quote_all_quotes[3].docname = "d1"

====
